---- MODULE Spec2Model ----
(***************************************************************************)
(* Model of pytest_workflow/plugin.py: the collection of workflow tests    *)
(* from a YAML file, the single run of each workflow in its own temporary  *)
(* directory (WorkflowTestsCollector.run_workflow), the checks built on    *)
(* that run (WorkflowTestsCollector.collect), the exit code check          *)
(* (ExitCodeTest) and the finalizer that keeps or removes the directory.   *)
(*                                                                         *)
(* The host (pytest) calls the handlers: collect() once per collector,     *)
(* runtest() once per item in collection order, repr_failure() for a       *)
(* failed item, and the registered finalizers once the node's tests are    *)
(* completed.  Handlers of different workflows interleave freely.          *)
(***************************************************************************)
EXTENDS Integers, Sequences, FiniteSets, TLC

\* ---------------------------------------------------------------- bounds
MaxExitCode == 1        \* exit codes range over 0..MaxExitCode
MaxFiles == 2           \* file expectations per workflow test
MaxReprCalls == 1       \* calls of repr_failure per failed item
MaxStemLen == 4         \* characters of a file name before its last part
MaxTests == 2           \* workflow tests in the YAML file that is collected

\* The workflow tests of the YAML file, one WorkflowTestsCollector each.
\* (With three tests and MaxFiles = 1 the same invariants hold, over
\* 1.2 million states.)
W == {1, 2}
ExitCodes == 0..MaxExitCode

\* ------------------------------------------------------- names and paths
\* A name is a sequence of characters.
Whitespace == {" ", "\t"}

Names == { <<"a", " ", "b">>, <<"a", "_", "b">>, <<"c">> }

\* replace_whitespace(string, replace_with) of the package's __init__:
\* every whitespace character becomes replace_with.
replace_whitespace(string, replace_with) ==
    [i \in DOMAIN string |->
        IF string[i] \in Whitespace THEN replace_with ELSE string[i]]

\* basetemp = Path(str(self.config._tmp_path_factory.getbasetemp()))
basetemp == << "tmp", "pytest-0" >>

\* tempdir = basetemp / Path(replace_whitespace(self.name, '_'))
TempDirOmitsName(name) == basetemp

TempDir(name) == Append(basetemp, replace_whitespace(name, "_"))

TempDirs == { TempDir(n) : n \in Names }

\* ------------------------------------------------------ the YAML schema
\* A content expectation of a stream: unset (no check) or a list of
\* strings the stream must contain.
ContentTests == { "unset", "contains" }

\* The ordered file expectations of a test: the first k of the paths
\* MaxFiles, MaxFiles - 1, ..., 1.
FileLists ==
    { [i \in 1..k |-> MaxFiles + 1 - i] : k \in 0..MaxFiles }

\* schema.WorkflowTest: what workflow_tests_from_schema yields per test.
WorkflowTests ==
    [ name : Names, command : {"command"}, exit_code : ExitCodes,
      files : FileLists, stdout : ContentTests, stderr : ContentTests ]

\* ------------------------------------------------ collection of a file
\* A base name is a sequence of characters.  py.path: the extension of a
\* path is its base name from the last dot on, the dot included, and is
\* empty when the base name has no dot.
LastDot(basename) ==
    IF \E i \in 1..Len(basename) : basename[i] = "."
    THEN CHOOSE i \in 1..Len(basename) :
            /\ basename[i] = "."
            /\ \A j \in (i + 1)..Len(basename) : basename[j] # "."
    ELSE 0

Ext(basename) ==
    IF LastDot(basename) = 0 THEN << >>
    ELSE SubSeq(basename, LastDot(basename), Len(basename))

\* str.startswith
StartsWith(string, prefix) ==
    /\ Len(string) >= Len(prefix)
    /\ SubSeq(string, 1, Len(prefix)) = prefix

\* The base names considered: a stem of at most MaxStemLen characters,
\* then nothing or one of three endings.
StemChars == { "t", "e", "s", "." }
Stems == UNION { [1..n -> StemChars] : n \in 0..MaxStemLen }
Endings == { << >>, << ".", "y", "m", "l" >>, << ".", "y", "a", "m", "l" >>,
             << ".", "t", "x", "t" >> }
Paths == { stem \o ending : stem \in Stems, ending \in Endings }

\* pytest_collect_file: a YamlFile for the yaml files that start with
\* "test", None for every other file.
pytest_collect_file_any_name(basename) ==
    IF Ext(basename) \in { << ".", "y", "m", "l" >>,
                           << ".", "y", "a", "m", "l" >> }
    THEN "YamlFile" ELSE "None"

pytest_collect_file(basename) ==
    IF /\ Ext(basename) \in { << ".", "y", "m", "l" >>,
                              << ".", "y", "a", "m", "l" >> }
       /\ StartsWith(basename, << "t", "e", "s", "t" >>)
    THEN "YamlFile" ELSE "None"

\* WorkflowTestsCollector(test, parent): named after its test.
WorkflowTestsCollector(test, parent) ==
    [ name |-> test.name, workflow_test |-> test, parent |-> parent ]

\* YamlFile.collect: one WorkflowTestsCollector per workflow test of the
\* schema, in the order of the schema.
YamlFile_collect(fspath, workflow_tests) ==
    [ i \in 1..Len(workflow_tests) |->
        WorkflowTestsCollector(workflow_tests[i], fspath) ]

\* ---------------------------------------------------------------- state
VARIABLES
    keep_workflow_wd,   \* the --keep-workflow-wd option
    workflow_test,      \* [W -> WorkflowTests]: self.workflow_test per collector
    pc,                 \* [W -> position of the collector in its life]
    fs,                 \* [TempDirs -> directory]: the temporary directories
    workflow,           \* [W -> the Workflow object run_workflow made]
    executions,         \* [W -> times the workflow's command was executed]
    finalizers,         \* [W -> finalizers registered with addfinalizer]
    tests,              \* [W -> the nodes collect() returned]
    outcomes,           \* [W -> outcomes of the items run so far, in order]
    messages,           \* [W -> messages repr_failure returned]
    events,             \* [W -> what the collector did, in order]
    raised,             \* [W -> the exception that left a handler, or "none"]
    tempdirs,           \* [W -> the tempdir run_workflow computed, or << >>]
    terminal,           \* the lines written with terminal_reporter.write_line
    path,               \* the base name of the file pytest offers to the hook
    yaml_file,          \* what pytest_collect_file returned for it, or "unset"
    schema,             \* the workflow tests read from the file by collect()
    collectors          \* the WorkflowTestsCollectors YamlFile.collect returned

\* The variables of the collection of a file.
filevars == << path, yaml_file, schema, collectors >>

vars == << keep_workflow_wd, workflow_test, pc, fs, workflow, executions,
           finalizers, tests, outcomes, messages, events, raised,
           tempdirs, terminal, path, yaml_file, schema, collectors >>

Absent == [ exists |-> FALSE, owner |-> 0, logs |-> {}, files |-> {},
            runs |-> 0 ]

\* The directory after copytree: the copy of the project tree, made for w.
Copied(w) == [ exists |-> TRUE, owner |-> w, logs |-> {}, files |-> {},
               runs |-> 0 ]

NoWorkflow == [ command |-> "", cwd |-> << >>, state |-> "none",
                exit_code |-> -1, stdout |-> << >>, stderr |-> << >> ]

\* A test that states only its name and command: the exit code defaults
\* to 0 and nothing else is expected.
IsPlain(t) ==
    t.exit_code = 0 /\ t.files = << >> /\ t.stdout = "unset" /\ t.stderr = "unset"

\* The YAML files considered: the names differ (the schema rejects tests
\* with the same name) and at most one test states more than its name.
Schemas ==
    { t \in [W -> WorkflowTests] :
        /\ \A v, w \in W : v # w => t[v].name # t[w].name
        /\ \E v \in W : \A w \in W \ {v} : IsPlain(t[w]) }

\* pytest makes one WorkflowTestsCollector per test of the schema
\* (YamlFile.collect).
Init ==
    /\ keep_workflow_wd \in BOOLEAN
    /\ workflow_test \in Schemas
    /\ pc = [w \in W |-> "pending"]
    /\ fs = [d \in TempDirs |-> Absent]
    /\ workflow = [w \in W |-> NoWorkflow]
    /\ executions = [w \in W |-> 0]
    /\ finalizers = [w \in W |-> << >>]
    /\ tests = [w \in W |-> << >>]
    /\ outcomes = [w \in W |-> << >>]
    /\ messages = [w \in W |-> << >>]
    /\ events = [w \in W |-> << >>]
    /\ raised = [w \in W |-> "none"]
    /\ tempdirs = [w \in W |-> << >>]
    /\ terminal = << >>
    /\ path = << "t", "e", "s", "t", ".", "y", "m", "l" >>
    /\ yaml_file = pytest_collect_file(path)
    /\ schema = [i \in 1..Cardinality(W) |-> workflow_test[i]]
    /\ collectors = YamlFile_collect(path, schema)

\* ------------------------------------------------- the Workflow object
\* Workflow(command, cwd): a workflow that has not run.
NewWorkflow(command, cwd) ==
    [ command |-> command, cwd |-> cwd, state |-> "new",
      exit_code |-> -1, stdout |-> << >>, stderr |-> << >> ]

\* Workflow.run(): runs the command in cwd and returns when the process has
\* ended, with its exit code and both streams captured.  What the command
\* wrote is named by the directory it ran in.
WorkflowRun(wf, code) ==
    [ wf EXCEPT !.state = "exited", !.exit_code = code,
                !.stdout = << "stdout", wf.cwd >>,
                !.stderr = << "stderr", wf.cwd >> ]

\* What the command leaves in its directory.  The commands considered:
\* the one that exits with code c has written the files with a path
\* above c, so the command that exits with 0 has written them all.
Produced(code) == { p \in 1..MaxFiles : p > code }

\* The directory after the command has run in it.
RanIn(dir, code) ==
    [ dir EXCEPT !.files = @ \cup Produced(code), !.runs = @ + 1 ]

\* The Workflow object a node holds: collector w's, or one never run.
Deref(ref) == IF ref \in W THEN workflow[ref] ELSE NewWorkflow("", << >>)

\* ------------------------------------------- WorkflowTestsCollector
\* run_workflow, lines 120-126: the workflow is made for the temporary
\* directory and run; run_workflow goes on when run() has returned.
StartWorkflowNotRun(command, tempdir, code) == NewWorkflow(command, tempdir)

StartWorkflow(command, tempdir, code) ==
    WorkflowRun(NewWorkflow(command, tempdir), code)

\* run_workflow, lines 128-145: which finalizer is registered, and what is
\* called at once (functools.partial defers the call of rmtree).
AddFinalizerCallsRmtree(keep) ==
    [ registered |-> << IF keep THEN "write_logs" ELSE "rm_tempdir" >>,
      called |-> IF keep THEN << >> ELSE << "rmtree" >> ]

AddFinalizerSwapped(keep) ==
    [ registered |-> << IF keep THEN "rm_tempdir" ELSE "write_logs" >>,
      called |-> << >> ]

AddFinalizer(keep) ==
    [ registered |-> << IF keep THEN "write_logs" ELSE "rm_tempdir" >>,
      called |-> << >> ]

\* The nodes of collect(): a FileTestCollector per file expectation, then
\* the ExitCodeTest, then the stdout and the stderr ContentTestCollector,
\* all holding the workflow run_workflow returned.
Node(kind, parent, ref, arg) ==
    [ kind |-> kind, parent |-> parent, workflow |-> ref, arg |-> arg ]

CollectTestsExitCodeFirst(w, wt, ref) ==
    << Node("exit_code", w, ref, wt.exit_code),
       Node("stdout", w, ref, wt.stdout),
       Node("stderr", w, ref, wt.stderr) >>
    \o [ i \in 1..Len(wt.files) |-> Node("file", w, ref, wt.files[i]) ]

CollectTestsFreshWorkflow(w, wt, ref) ==
    [ i \in 1..Len(wt.files) |-> Node("file", w, ref, wt.files[i]) ]
    \o << Node("exit_code", w, 0, wt.exit_code),
          Node("stdout", w, ref, wt.stdout),
          Node("stderr", w, ref, wt.stderr) >>

\* (A collect() that builds a content check only for a stream the test
\* has an expectation for.)
CollectTestsSkipsUnset(w, wt, ref) ==
    [ i \in 1..Len(wt.files) |-> Node("file", w, ref, wt.files[i]) ]
    \o << Node("exit_code", w, ref, wt.exit_code) >>
    \o (IF wt.stdout = "unset" THEN << >>
        ELSE << Node("stdout", w, ref, wt.stdout) >>)
    \o (IF wt.stderr = "unset" THEN << >>
        ELSE << Node("stderr", w, ref, wt.stderr) >>)

CollectTests(w, wt, ref) ==
    [ i \in 1..Len(wt.files) |-> Node("file", w, ref, wt.files[i]) ]
    \o << Node("exit_code", w, ref, wt.exit_code),
          Node("stdout", w, ref, wt.stdout),
          Node("stderr", w, ref, wt.stderr) >>

\* (A copy that accepts an existing directory: the command is run in
\* the directory that was there and collect() goes on.)
CollectCopyFailsRunsAnyway(w) ==
    LET tempdir == TempDir(workflow_test[w].name)
        fin == AddFinalizer(keep_workflow_wd)
    IN
    /\ pc[w] = "pending"
    /\ fs[tempdir].exists
    /\ \E code \in ExitCodes :
          /\ workflow' = [workflow EXCEPT ![w] =
                StartWorkflow(workflow_test[w].command, tempdir, code)]
          /\ fs' = [fs EXCEPT ![tempdir] =
                RanIn([ @ EXCEPT !.owner = w ], code)]
    /\ executions' = [executions EXCEPT ![w] = @ + 1]
    /\ finalizers' = [finalizers EXCEPT ![w] = @ \o fin.registered]
    /\ tests' = [tests EXCEPT ![w] = CollectTests(w, workflow_test[w], w)]
    /\ tempdirs' = [tempdirs EXCEPT ![w] = tempdir]
    /\ pc' = [pc EXCEPT ![w] = "collected"]
    /\ events' = [events EXCEPT ![w] =
                 << "copytree", "Workflow", "run", "addfinalizer", "tests" >>]
    /\ UNCHANGED << keep_workflow_wd, workflow_test, outcomes, messages,
                    raised, terminal >>
    /\ UNCHANGED filevars

\* collect() when copytree raises: the directory is there already.  The
\* exception leaves collect(); nothing was run, registered or built.
CollectCopyFails(w) ==
    LET tempdir == TempDir(workflow_test[w].name) IN
    /\ pc[w] = "pending"
    /\ fs[tempdir].exists
    /\ tempdirs' = [tempdirs EXCEPT ![w] = tempdir]
    /\ pc' = [pc EXCEPT ![w] = "collect_error"]
    /\ raised' = [raised EXCEPT ![w] = "copytree"]
    /\ events' = [events EXCEPT ![w] = << "copytree raised" >>]
    /\ UNCHANGED << keep_workflow_wd, workflow_test, fs, workflow, executions,
                    finalizers, tests, outcomes, messages, terminal >>
    /\ UNCHANGED filevars

\* (collect() going on after the exception of workflow.run() as if the
\* command had run.)
CollectSpawnFailsSwallowed(w) ==
    LET tempdir == TempDir(workflow_test[w].name)
        fin == AddFinalizer(keep_workflow_wd)
    IN
    /\ pc[w] = "pending"
    /\ ~ fs[tempdir].exists
    /\ fs' = [fs EXCEPT ![tempdir] = Copied(w)]
    /\ workflow' = [workflow EXCEPT ![w] =
                 NewWorkflow(workflow_test[w].command, tempdir)]
    /\ finalizers' = [finalizers EXCEPT ![w] = @ \o fin.registered]
    /\ tests' = [tests EXCEPT ![w] = CollectTests(w, workflow_test[w], w)]
    /\ tempdirs' = [tempdirs EXCEPT ![w] = tempdir]
    /\ pc' = [pc EXCEPT ![w] = "collected"]
    /\ raised' = [raised EXCEPT ![w] = "run"]
    /\ events' = [events EXCEPT ![w] =
                 << "copytree", "Workflow", "run raised", "addfinalizer",
                    "tests" >>]
    /\ UNCHANGED << keep_workflow_wd, workflow_test, executions, outcomes,
                    messages, terminal >>
    /\ UNCHANGED filevars

\* collect() when workflow.run() raises: the command could not be started.
\* The project tree was copied; the exception leaves run_workflow before
\* line 128 and collect() at line 154.
CollectSpawnFails(w) ==
    LET tempdir == TempDir(workflow_test[w].name) IN
    /\ pc[w] = "pending"
    /\ ~ fs[tempdir].exists
    /\ fs' = [fs EXCEPT ![tempdir] = Copied(w)]
    /\ workflow' = [workflow EXCEPT ![w] =
                 NewWorkflow(workflow_test[w].command, tempdir)]
    /\ tempdirs' = [tempdirs EXCEPT ![w] = tempdir]
    /\ pc' = [pc EXCEPT ![w] = "collect_error"]
    /\ raised' = [raised EXCEPT ![w] = "run"]
    /\ events' = [events EXCEPT ![w] =
                 << "copytree", "Workflow", "run raised" >>]
    /\ UNCHANGED << keep_workflow_wd, workflow_test, executions,
                    finalizers, tests, outcomes, messages, terminal >>
    /\ UNCHANGED filevars

\* The statements of run_workflow in the order they are executed: the
\* copy of the project tree (118), the Workflow object (120), run() (126)
\* and the registration of the finalizer (140 or 145).
RunWorkflowStepsFinalizerFirst ==
    << "copytree", "addfinalizer", "Workflow", "run" >>

RunWorkflowSteps == << "copytree", "Workflow", "run", "addfinalizer" >>

\* collect() when the command runs: run_workflow copies the project tree,
\* runs the workflow once and registers the finalizer; collect() builds the
\* nodes on the workflow it returned.
CollectRuns(w) ==
    LET tempdir == TempDir(workflow_test[w].name)
        fin == AddFinalizer(keep_workflow_wd)
    IN
    /\ pc[w] = "pending"
    /\ ~ fs[tempdir].exists
    /\ \E code \in ExitCodes :
          /\ workflow' = [workflow EXCEPT ![w] =
                StartWorkflow(workflow_test[w].command, tempdir, code)]
          /\ fs' = [fs EXCEPT ![tempdir] =
                IF fin.called = << >>
                THEN RanIn(Copied(w), code)
                ELSE Absent]
    /\ executions' = [executions EXCEPT ![w] = @ + 1]
    /\ finalizers' = [finalizers EXCEPT ![w] = @ \o fin.registered]
    /\ tests' = [tests EXCEPT ![w] = CollectTests(w, workflow_test[w], w)]
    /\ tempdirs' = [tempdirs EXCEPT ![w] = tempdir]
    /\ pc' = [pc EXCEPT ![w] = "collected"]
    /\ events' = [events EXCEPT ![w] = RunWorkflowSteps \o << "tests" >>]
    /\ UNCHANGED << keep_workflow_wd, workflow_test, outcomes, messages,
                    raised, terminal >>
    /\ UNCHANGED filevars

\* -------------------------------------------------------- ExitCodeTest
\* runtest: assert self.workflow.exit_code == self.desired_exit_code
ExitCodePasses(exit_code, desired_exit_code) == exit_code = desired_exit_code

\* repr_failure: the message, the two codes formatted into it.
ReprFailureSwapped(exit_code, desired_exit_code) ==
    << "The workflow exited with exit code ",
       "'", ToString(desired_exit_code), "'", " instead of ",
       "'", ToString(exit_code), "'", "." >>

ReprFailure(exit_code, desired_exit_code) ==
    << "The workflow exited with exit code ",
       "'", ToString(exit_code), "'", " instead of ",
       "'", ToString(desired_exit_code), "'", "." >>

\* The item pytest runs next: items run once each, in collection order.
NextItem(w) == Len(outcomes[w]) + 1

Outcome(i, node, result) ==
    [ item |-> i, kind |-> node.kind, result |-> result,
      saw |-> Deref(node.workflow) ]

\* (A failed exit code check that ends the node: the checks after it are
\* not run.)
RunExitCodeTestAborts(w) ==
    /\ pc[w] = "collected"
    /\ NextItem(w) <= Len(tests[w])
    /\ LET node == tests[w][NextItem(w)]
           passes == ExitCodePasses(Deref(node.workflow).exit_code, node.arg)
       IN
       /\ node.kind = "exit_code"
       /\ outcomes' = [outcomes EXCEPT ![w] = Append(@,
             Outcome(NextItem(w), node,
                 IF passes THEN "passed" ELSE "failed"))]
       /\ pc' = [pc EXCEPT ![w] = IF passes THEN @ ELSE "finished"]
    /\ UNCHANGED << keep_workflow_wd, tempdirs, workflow_test, fs, workflow,
                    executions, finalizers, tests, messages, events, raised,
                    terminal >>
    /\ UNCHANGED filevars

\* (A runtest that assigns the code it read to the node's desired exit
\* code instead of comparing the two.)
RunExitCodeTestAssigns(w) ==
    /\ pc[w] = "collected"
    /\ NextItem(w) <= Len(tests[w])
    /\ LET node == tests[w][NextItem(w)] IN
       /\ node.kind = "exit_code"
       /\ tests' = [tests EXCEPT ![w][NextItem(w)].arg =
                        Deref(node.workflow).exit_code]
       /\ outcomes' = [outcomes EXCEPT ![w] = Append(@,
             Outcome(NextItem(w), node, "passed"))]
    /\ UNCHANGED << keep_workflow_wd, tempdirs, workflow_test, pc, fs, workflow,
                    executions, finalizers, messages, events, raised,
                    terminal >>
    /\ UNCHANGED filevars

\* pytest runs the ExitCodeTest: runtest() reads the exit code of the
\* workflow the node holds and compares it with the desired one.
RunExitCodeTest(w) ==
    /\ pc[w] = "collected"
    /\ NextItem(w) <= Len(tests[w])
    /\ LET node == tests[w][NextItem(w)] IN
       /\ node.kind = "exit_code"
       /\ outcomes' = [outcomes EXCEPT ![w] = Append(@,
             Outcome(NextItem(w), node,
                 IF ExitCodePasses(Deref(node.workflow).exit_code, node.arg)
                 THEN "passed" ELSE "failed"))]
    /\ UNCHANGED << keep_workflow_wd, tempdirs, workflow_test, pc, fs, workflow,
                    executions, finalizers, tests, messages, events, raised,
                    terminal >>
    /\ UNCHANGED filevars

\* A file check passes iff the file is in the directory of the workflow
\* the node holds; what a content check finds in a stream is not modelled,
\* it has run.
OtherResult(node) ==
    IF node.kind = "file"
    THEN IF node.arg \in fs[Deref(node.workflow).cwd].files
         THEN "passed" ELSE "failed"
    ELSE "ran"

\* pytest runs the tests of a FileTestCollector or a ContentTestCollector:
\* they read the directory and the captured streams of the workflow.
RunOtherTest(w) ==
    /\ pc[w] = "collected"
    /\ NextItem(w) <= Len(tests[w])
    /\ LET node == tests[w][NextItem(w)] IN
       /\ node.kind # "exit_code"
       /\ outcomes' = [outcomes EXCEPT ![w] = Append(@,
             Outcome(NextItem(w), node, OtherResult(node)))]
    /\ UNCHANGED << keep_workflow_wd, tempdirs, workflow_test, pc, fs, workflow,
                    executions, finalizers, tests, messages, events, raised,
                    terminal >>
    /\ UNCHANGED filevars

\* (A repr_failure whose read of the exit code executes the command
\* again, with whatever code the new run ends with.)
CallReprFailureReruns(w) ==
    /\ pc[w] = "collected"
    /\ Len(messages[w]) < MaxReprCalls
    /\ \E i \in 1..Len(outcomes[w]) : \E code \in ExitCodes :
          /\ outcomes[w][i].kind = "exit_code"
          /\ outcomes[w][i].result = "failed"
          /\ workflow' = [workflow EXCEPT ![w].exit_code = code]
          /\ executions' = [executions EXCEPT ![w] = @ + 1]
          /\ messages' = [messages EXCEPT ![w] = Append(@,
                ReprFailure(code, tests[w][i].arg))]
    /\ UNCHANGED << keep_workflow_wd, tempdirs, workflow_test, pc, fs,
                    finalizers, tests, outcomes, events, raised, terminal >>
    /\ UNCHANGED filevars

\* pytest asks the failed ExitCodeTest for its message.
CallReprFailure(w) ==
    /\ pc[w] = "collected"
    /\ Len(messages[w]) < MaxReprCalls
    /\ \E i \in 1..Len(outcomes[w]) :
          /\ outcomes[w][i].kind = "exit_code"
          /\ outcomes[w][i].result = "failed"
          /\ LET node == tests[w][i] IN
             messages' = [messages EXCEPT ![w] = Append(@,
                 ReprFailure(Deref(node.workflow).exit_code, node.arg))]
    /\ UNCHANGED << keep_workflow_wd, tempdirs, workflow_test, pc, fs, workflow,
                    executions, finalizers, tests, outcomes, events, raised,
                    terminal >>
    /\ UNCHANGED filevars

\* ----------------------------------------------------------- finalizers
\* pytest runs a node's finalizers when the node's tests are completed.
TestsCompleted(w) ==
    /\ pc[w] = "collected"
    /\ Len(outcomes[w]) = Len(tests[w])

\* write_logs: both streams are saved in the workflow's directory and the
\* two paths are written to the terminal.
FinalizeWriteLogs(w) ==
    /\ TestsCompleted(w)
    /\ finalizers[w] # << >>
    /\ Head(finalizers[w]) = "write_logs"
    /\ fs' = [fs EXCEPT ![workflow[w].cwd].logs = @ \cup {"err", "out"}]
    /\ terminal' = terminal \o
          << << workflow_test[w].name, "stdout saved in", workflow[w].cwd >>,
             << workflow_test[w].name, "stderr saved in", workflow[w].cwd >> >>
    /\ pc' = [pc EXCEPT ![w] = "finished"]
    /\ events' = [events EXCEPT ![w] = Append(@, "write_logs")]
    /\ UNCHANGED << keep_workflow_wd, tempdirs, workflow_test, workflow, executions,
                    finalizers, tests, outcomes, messages, raised >>
    /\ UNCHANGED filevars

\* rm_tempdir: shutil.rmtree removes the directory.
FinalizeRmTempdir(w) ==
    /\ TestsCompleted(w)
    /\ finalizers[w] # << >>
    /\ Head(finalizers[w]) = "rm_tempdir"
    /\ fs[workflow[w].cwd].exists
    /\ fs' = [fs EXCEPT ![workflow[w].cwd] = Absent]
    /\ pc' = [pc EXCEPT ![w] = "finished"]
    /\ events' = [events EXCEPT ![w] = Append(@, "rmtree")]
    /\ UNCHANGED << keep_workflow_wd, tempdirs, workflow_test, workflow, executions,
                    finalizers, tests, outcomes, messages, raised, terminal >>
    /\ UNCHANGED filevars

\* rm_tempdir when shutil.rmtree raises (the command left something that
\* cannot be removed): nothing catches the exception, it leaves the
\* finalizer, and the directory stays.
FinalizeRmTempdirRaises(w) ==
    /\ TestsCompleted(w)
    /\ finalizers[w] # << >>
    /\ Head(finalizers[w]) = "rm_tempdir"
    /\ pc' = [pc EXCEPT ![w] = "finished"]
    /\ raised' = [raised EXCEPT ![w] = "rmtree"]
    /\ events' = [events EXCEPT ![w] = Append(@, "rmtree raised")]
    /\ UNCHANGED << keep_workflow_wd, tempdirs, workflow_test, fs, workflow, executions,
                    finalizers, tests, outcomes, messages, terminal >>
    /\ UNCHANGED filevars

\* ------------------------------------------------------- specification
Next ==
    \E w \in W :
        \/ CollectCopyFails(w)
        \/ CollectSpawnFails(w)
        \/ CollectRuns(w)
        \/ RunExitCodeTest(w)
        \/ RunOtherTest(w)
        \/ CallReprFailure(w)
        \/ FinalizeWriteLogs(w)
        \/ FinalizeRmTempdir(w)
        \/ FinalizeRmTempdirRaises(w)

Spec == Init /\ [][Next]_vars

\* ------------------------------------- specification: collection of a file
\* The YAML files considered when a file is collected: one to MaxTests
\* tests that state only a name and a command, with different names.
PlainTest(name) ==
    [ name |-> name, command |-> "command", exit_code |-> 0,
      files |-> << >>, stdout |-> "unset", stderr |-> "unset" ]

FileSchemas ==
    UNION { { [i \in 1..n |-> PlainTest(names[i])] :
                names \in { f \in [1..n -> Names] :
                              \A i, j \in 1..n : i # j => f[i] # f[j] } } :
            n \in 1..MaxTests }

\* pytest has found a file and has not yet offered it to the hook; no
\* collector of a workflow test exists yet.
InitFiles ==
    /\ path \in Paths
    /\ yaml_file = "unset"
    /\ schema = << >>
    /\ collectors = << >>
    /\ keep_workflow_wd = FALSE
    /\ workflow_test = [w \in W |-> PlainTest(<< "c" >>)]
    /\ pc = [w \in W |-> "absent"]
    /\ fs = [d \in TempDirs |-> Absent]
    /\ workflow = [w \in W |-> NoWorkflow]
    /\ executions = [w \in W |-> 0]
    /\ finalizers = [w \in W |-> << >>]
    /\ tests = [w \in W |-> << >>]
    /\ outcomes = [w \in W |-> << >>]
    /\ messages = [w \in W |-> << >>]
    /\ events = [w \in W |-> << >>]
    /\ raised = [w \in W |-> "none"]
    /\ tempdirs = [w \in W |-> << >>]
    /\ terminal = << >>

workflowvars == << keep_workflow_wd, workflow_test, pc, fs, workflow,
                   executions, finalizers, tests, outcomes, messages,
                   events, raised, tempdirs, terminal >>

\* pytest offers the file to the hook.
PytestCollectFile ==
    /\ yaml_file = "unset"
    /\ yaml_file' = pytest_collect_file(path)
    /\ UNCHANGED << path, schema, collectors >>
    /\ UNCHANGED workflowvars

\* pytest calls collect() of the YamlFile the hook returned: the file is
\* read and its workflow tests become collectors.
CollectYamlFile ==
    /\ yaml_file = "YamlFile"
    /\ schema = << >>
    /\ \E workflow_tests \in FileSchemas :
          /\ schema' = workflow_tests
          /\ collectors' = YamlFile_collect(path, workflow_tests)
    /\ UNCHANGED << path, yaml_file >>
    /\ UNCHANGED workflowvars

NextFiles ==
    \/ PytestCollectFile
    \/ CollectYamlFile

SpecFiles == InitFiles /\ [][NextFiles]_vars

\* ================================================================ claims
Collected(w) == pc[w] \in {"collected", "finished"}

\* The directory run_workflow made for w is there.
HoldsDir(w) ==
    /\ tempdirs[w] # << >>
    /\ fs[tempdirs[w]].exists
    /\ fs[tempdirs[w]].owner = w

FinalizerRan(w) ==
    \E i \in 1..Len(events[w]) :
        events[w][i] \in {"write_logs", "rmtree", "rmtree raised"}

\* C1: a workflow's command is executed exactly once by collect(), every
\* node collect() returns holds the Workflow of that one run, and running
\* the checks never executes the command again.
C1_SingleRunSharedByChecks ==
    \A w \in W :
        /\ executions[w] <= 1
        /\ Collected(w) =>
              /\ executions[w] = 1
              /\ workflow[w].state = "exited"
              /\ \A i \in 1..Len(tests[w]) :
                    /\ tests[w][i].workflow = w
                    /\ tests[w][i].parent = w
              /\ \A i \in 1..Len(outcomes[w]) :
                    outcomes[w][i].saw = workflow[w]

C1_Witness ==
    \E w \in W :
        /\ pc[w] = "finished"
        /\ Len(workflow_test[w].files) = 2
        /\ Len(outcomes[w]) = 5
        /\ executions[w] = 1

\* C2 (as claimed): whenever the directory of a workflow has been
\* allocated, exactly one finalizer is registered for it.
C2_FinalizerWheneverAllocated ==
    \A w \in W : HoldsDir(w) => Len(finalizers[w]) = 1

\* C3 (as claimed): collect() returns the exit code check first, then
\* stdout, then stderr, then the file checks in the order of the schema.
C3_ExitCodeFirst ==
    \A w \in W :
        Collected(w) =>
            LET files == workflow_test[w].files IN
            /\ Len(tests[w]) = Len(files) + 3
            /\ tests[w][1].kind = "exit_code"
            /\ tests[w][2].kind = "stdout"
            /\ tests[w][3].kind = "stderr"
            /\ \A i \in 1..Len(files) :
                  /\ tests[w][3 + i].kind = "file"
                  /\ tests[w][3 + i].arg = files[i]

\* C3 (amended): collect() returns the file checks first, in the order of
\* the schema, then the exit code check, then stdout, then stderr.
C3_FilesFirst ==
    \A w \in W :
        Collected(w) =>
            LET files == workflow_test[w].files
                k == Len(workflow_test[w].files)
            IN
            /\ Len(tests[w]) = k + 3
            /\ \A i \in 1..k :
                  /\ tests[w][i].kind = "file"
                  /\ tests[w][i].arg = files[i]
            /\ tests[w][k + 1].kind = "exit_code"
            /\ tests[w][k + 2].kind = "stdout"
            /\ tests[w][k + 3].kind = "stderr"

C3_Witness ==
    \E w \in W :
        /\ pc[w] = "collected"
        /\ workflow_test[w].files = << 2, 1 >>
        /\ tests[w][1].arg = 2
        /\ tests[w][2].arg = 1
        /\ tests[w][3].kind = "exit_code"

\* C4 (as claimed): two workflows with different names never get the same
\* temporary directory from run_workflow.
C4_DistinctNamesDistinctDirs ==
    \A v, w \in W :
        ( /\ v # w
          /\ workflow_test[v].name # workflow_test[w].name
          /\ tempdirs[v] # << >>
          /\ tempdirs[w] # << >> )
        => tempdirs[v] # tempdirs[w]

\* C5: the finalizer of a workflow runs only when all its checks have been
\* run, and a workflow with a check still to run has its directory.
C5_FinalizerAfterChecks ==
    \A w \in W :
        /\ FinalizerRan(w) =>
              /\ Len(tests[w]) >= 3
              /\ Len(outcomes[w]) = Len(tests[w])
        /\ (pc[w] = "collected" /\ Len(outcomes[w]) < Len(tests[w]))
              => HoldsDir(w)

C5_Witness ==
    \E v, w \in W :
        /\ v # w
        /\ ~ keep_workflow_wd
        /\ pc[v] = "finished" /\ ~ HoldsDir(v)
        /\ Len(outcomes[v]) = Len(tests[v])
        /\ pc[w] = "collected" /\ Len(outcomes[w]) = 1 /\ HoldsDir(w)

C7_SpawnFailureSkipsChecks ==
    \A w \in W :
        raised[w] = "run" =>
            /\ pc[w] = "collect_error"
            /\ workflow[w].state = "new"
            /\ workflow[w].exit_code \notin ExitCodes
            /\ executions[w] = 0
            /\ tests[w] = << >>
            /\ outcomes[w] = << >>
            /\ messages[w] = << >>

C7_Witness ==
    \E v, w \in W :
        /\ raised[w] = "run"
        /\ HoldsDir(w)
        /\ pc[v] = "finished"
        /\ \E i \in 1..Len(outcomes[v]) : outcomes[v][i].result = "failed"

\* C8: the exit code check passes iff the exit code of the run equals the
\* desired one, and the failure message, made only for a run whose code
\* differs, names the observed code first and the desired code second.
C8_ExitCodeCheck ==
    \A w \in W :
        /\ \A i \in 1..Len(outcomes[w]) :
              outcomes[w][i].kind = "exit_code" =>
                  /\ outcomes[w][i].result \in {"passed", "failed"}
                  /\ outcomes[w][i].result = "passed"
                        <=> workflow[w].exit_code = workflow_test[w].exit_code
        /\ \A j \in 1..Len(messages[w]) :
              /\ workflow[w].exit_code # workflow_test[w].exit_code
              /\ messages[w][j] =
                    << "The workflow exited with exit code ",
                       "'", ToString(workflow[w].exit_code), "'",
                       " instead of ",
                       "'", ToString(workflow_test[w].exit_code), "'", "." >>

C8_Witness ==
    \E v, w \in W :
        /\ workflow[w].exit_code = 1
        /\ workflow_test[w].exit_code = 0
        /\ messages[w] = << << "The workflow exited with exit code ",
                               "'", "1", "'", " instead of ",
                               "'", "0", "'", "." >> >>
        /\ \E i \in 1..Len(outcomes[v]) : outcomes[v][i].result = "passed"

\* C9: every check that has run saw its workflow after the command had
\* ended, and all checks of a workflow saw the same result: the exit code
\* and the streams the workflow still has.
C9_ChecksSeeCompletedRun ==
    \A w \in W :
        \A i \in 1..Len(outcomes[w]) :
            /\ outcomes[w][i].saw.state = "exited"
            /\ outcomes[w][i].saw.exit_code \in ExitCodes
            /\ outcomes[w][i].saw.exit_code = workflow[w].exit_code
            /\ outcomes[w][i].saw.stdout = workflow[w].stdout
            /\ outcomes[w][i].saw.stderr = workflow[w].stderr
            /\ outcomes[w][i].saw.cwd = tempdirs[w]

C9_Witness ==
    \E w \in W :
        /\ Len(outcomes[w]) = 5
        /\ { outcomes[w][i].kind : i \in 1..5 }
              = {"file", "exit_code", "stdout", "stderr"}
        /\ \A i \in 1..5 : outcomes[w][i].saw.state = "exited"

\* C10 (as claimed): an exception of rmtree in the finalizer is handled
\* there: it never leaves the finalizer.
C10_RmtreeFailureHandled ==
    \A w \in W : raised[w] # "rmtree"

\* C11: a failed check does not end its workflow's checks: every node gets
\* an outcome of its own, so a workflow whose checks are done has one
\* outcome per node, with every file that is missing and a wrong exit code
\* each reported as failed.
C11_EveryCheckReported ==
    \A w \in W :
        /\ \A i \in 1..Len(outcomes[w]) :
              /\ outcomes[w][i].item = i
              /\ outcomes[w][i].kind = tests[w][i].kind
              /\ outcomes[w][i].result = "failed" =>
                    pc[w] \in {"collected", "finished"}
        /\ pc[w] = "finished" =>
              /\ Len(outcomes[w]) = Len(tests[w])
              /\ \A i \in 1..Len(tests[w]) :
                    /\ tests[w][i].kind = "file" =>
                          ( outcomes[w][i].result = "failed"
                            <=> tests[w][i].arg
                                   \notin Produced(workflow[w].exit_code) )
                    /\ tests[w][i].kind = "exit_code" =>
                          ( outcomes[w][i].result = "failed"
                            <=> workflow[w].exit_code
                                   # workflow_test[w].exit_code )

C11_Witness ==
    \E w \in W :
        /\ pc[w] = "finished"
        /\ Len(outcomes[w]) = 5
        /\ outcomes[w][1].kind = "file" /\ outcomes[w][1].result = "passed"
        /\ outcomes[w][2].kind = "file" /\ outcomes[w][2].result = "failed"
        /\ outcomes[w][3].kind = "exit_code"
        /\ outcomes[w][3].result = "failed"
        /\ outcomes[w][4].kind = "stdout"
        /\ outcomes[w][5].kind = "stderr"

\* C12: one workflow's failure never affects another workflow's outcomes:
\* no workflow's collection is refused (copytree raising) on account of a
\* directory that a different workflow left behind when its command could
\* not be started.
C12_FailureDoesNotBlockOther ==
    \A A \in W : \A B \in W \ {A} :
        ~ ( /\ ~ keep_workflow_wd
            /\ workflow_test[A] # workflow_test[B]
            /\ raised[A] = "run"
            /\ raised[B] = "copytree"
            /\ tempdirs[B] = tempdirs[A]
            /\ fs[tempdirs[B]].owner = A )

\* C13: reading the exit code never executes the command again and every
\* read returns the same value: the code runtest compared and the code in
\* every message repr_failure built are the code the one run ended with.
C13_ExitCodeReadsAgree ==
    \A w \in W :
        (Len(outcomes[w]) > 0 \/ Len(messages[w]) > 0) =>
            /\ executions[w] = 1
            /\ workflow[w].exit_code \in ExitCodes
            /\ \A i \in 1..Len(outcomes[w]) :
                  outcomes[w][i].kind = "exit_code" =>
                      /\ outcomes[w][i].saw.exit_code = workflow[w].exit_code
                      /\ \A j \in 1..Len(messages[w]) :
                            messages[w][j][3]
                               = ToString(outcomes[w][i].saw.exit_code)
            /\ \A j, k \in 1..Len(messages[w]) :
                  messages[w][j] = messages[w][k]

C13_Witness ==
    \E w \in W :
        /\ pc[w] = "finished"
        /\ executions[w] = 1
        /\ Len(messages[w]) = MaxReprCalls
        /\ \E i \in 1..Len(outcomes[w]) :
              /\ outcomes[w][i].kind = "exit_code"
              /\ outcomes[w][i].result = "failed"
              /\ messages[w][1][3] = ToString(outcomes[w][i].saw.exit_code)

\* C14: the exit code check is read-only: a step in which runtest records
\* the outcome of an exit code check, or in which repr_failure builds a
\* message, leaves every workflow (exit code and captured streams), every
\* node with its desired exit code, the schema and every directory as
\* they were, and executes nothing.
C14_ExitCodeCheckReadOnly ==
    [][ \A w \in W :
          ( \/ /\ Len(outcomes'[w]) > Len(outcomes[w])
               /\ outcomes'[w][Len(outcomes'[w])].kind = "exit_code"
            \/ Len(messages'[w]) > Len(messages[w]) )
          => /\ workflow' = workflow
             /\ workflow_test' = workflow_test
             /\ tests' = tests
             /\ fs' = fs
             /\ executions' = executions
             /\ finalizers' = finalizers ]_vars

C14_Witness ==
    \E w \in W :
        /\ pc[w] = "collected"
        /\ HoldsDir(w)
        /\ fs[tempdirs[w]].files # {}
        /\ Len(messages[w]) > 0
        /\ \E i \in 1..Len(outcomes[w]) :
              /\ outcomes[w][i].kind = "exit_code"
              /\ tests[w][i].arg = workflow_test[w].exit_code
              /\ tests[w][i].arg # workflow[w].exit_code

\* The steps of a collection that goes through, in the order claimed.
Lifecycle == << "copytree", "Workflow", "run", "addfinalizer", "tests" >>

IsLifecycleStep(e) ==
    \/ e = "copytree" \/ e = "Workflow" \/ e = "run"
    \/ e = "addfinalizer" \/ e = "tests"

IsAllocation(e) == e = "copytree" \/ e = "copytree raised"

IsPrefix(s, t) == Len(s) <= Len(t) /\ s = SubSeq(t, 1, Len(s))

\* C15: the lifecycle of one workflow: the project tree is copied at most
\* once, and exactly once for a collected workflow; the copy comes before
\* the command is started; the command runs in the directory that was
\* copied; the finalizer is registered and the nodes are built only after
\* run() has returned.
C15_LifecycleOrder ==
    \A w \in W :
        LET steps == SelectSeq(events[w], IsLifecycleStep) IN
        /\ IsPrefix(steps, Lifecycle)
        /\ Len(SelectSeq(events[w], IsAllocation)) <= 1
        /\ workflow[w].state # "none" =>
              /\ Len(steps) >= 1
              /\ workflow[w].cwd = tempdirs[w]
              /\ tempdirs[w] = TempDir(workflow_test[w].name)
        /\ Collected(w) => steps = Lifecycle
        /\ (finalizers[w] # << >> \/ tests[w] # << >>) =>
              /\ workflow[w].state = "exited"
              /\ Len(steps) >= 3
        /\ Len(steps) < 3 => executions[w] = 0

C15_Witness ==
    \E w \in W :
        /\ Len(events[w]) = 6
        /\ SubSeq(events[w], 1, 5) =
              << "copytree", "Workflow", "run", "addfinalizer", "tests" >>
        /\ workflow[w].cwd = TempDir(workflow_test[w].name)
        /\ executions[w] = 1

\* C16: allocation needs a fresh directory.  A collector whose directory
\* was there already (copytree raised) has executed nothing, registered
\* no finalizer, built no node and no Workflow, and owns no directory: the
\* one that was there is as its owner's run left it.  Hence the command is
\* executed at most once in a directory while that directory exists.
C16_AllocationNeedsFreshDir ==
    /\ \A w \in W :
          raised[w] = "copytree" =>
              /\ pc[w] = "collect_error"
              /\ executions[w] = 0
              /\ finalizers[w] = << >>
              /\ tests[w] = << >>
              /\ workflow[w] = NoWorkflow
              /\ \A d \in TempDirs : fs[d].owner # w
    /\ \A d \in TempDirs :
          /\ fs[d].runs <= 1
          /\ fs[d].exists =>
                /\ fs[d].owner \in W
                /\ tempdirs[fs[d].owner] = d
                /\ fs[d].runs = executions[fs[d].owner]
                /\ fs[d].files =
                      IF fs[d].runs = 1
                      THEN Produced(workflow[fs[d].owner].exit_code)
                      ELSE {}

C16_Witness ==
    \E v, w \in W :
        /\ v # w
        /\ raised[w] = "copytree"
        /\ executions[w] = 0
        /\ tempdirs[w] = tempdirs[v]
        /\ fs[tempdirs[w]].exists
        /\ fs[tempdirs[w]].owner = v
        /\ fs[tempdirs[w]].runs = 1
        /\ Len(outcomes[v]) > 0

\* The nodes of one kind that collect() returned for w, in their order.
NodesOf(w, kind) == SelectSeq(tests[w], LAMBDA n : n.kind = kind)

\* C17: for a test with k file expectations a successful collect() returns
\* k + 3 nodes: one file check per expectation, in the order of the
\* schema; one exit code check, carrying the desired exit code of the
\* test; one stdout and one stderr check, carrying the expectation of the
\* test, and built also when that expectation is unset.
C17_NodeCount ==
    \A w \in W :
        Collected(w) =>
            LET wt == workflow_test[w]
                files == NodesOf(w, "file")
                exit_codes == NodesOf(w, "exit_code")
                stdouts == NodesOf(w, "stdout")
                stderrs == NodesOf(w, "stderr")
            IN
            /\ Len(tests[w]) = Len(wt.files) + 3
            /\ Len(files) = Len(wt.files)
            /\ \A i \in 1..Len(wt.files) : files[i].arg = wt.files[i]
            /\ Len(exit_codes) = 1
            /\ exit_codes[1].arg = wt.exit_code
            /\ Len(stdouts) = 1
            /\ stdouts[1].arg = wt.stdout
            /\ Len(stderrs) = 1
            /\ stderrs[1].arg = wt.stderr
            /\ \A i \in 1..Len(tests[w]) : tests[w][i].parent = w

C17_Witness ==
    \E w \in W :
        /\ Collected(w)
        /\ Len(workflow_test[w].files) = MaxFiles
        /\ workflow_test[w].stdout = "unset"
        /\ workflow_test[w].stderr = "unset"
        /\ Len(tests[w]) = MaxFiles + 3
        /\ NodesOf(w, "stdout") # << >>
        /\ NodesOf(w, "stderr") # << >>

\* The last n characters of a base name.
Tail_n(basename, n) ==
    IF Len(basename) < n THEN << >>
    ELSE SubSeq(basename, Len(basename) - n + 1, Len(basename))

\* C18: the hook returns a YamlFile exactly for the files whose name ends
\* in .yml or .yaml and starts with "test", and None for every other
\* file; collect() of a YamlFile yields one WorkflowTestsCollector per
\* workflow test of the file, and nothing is collected from a file the
\* hook turned down.
C18_FileCollection ==
    /\ yaml_file \in { "unset", "YamlFile", "None" }
    /\ yaml_file # "unset" =>
          ( yaml_file = "YamlFile"
            <=> /\ \/ Tail_n(path, 4) = << ".", "y", "m", "l" >>
                   \/ Tail_n(path, 5) = << ".", "y", "a", "m", "l" >>
                /\ Len(path) >= 4
                /\ path[1] = "t" /\ path[2] = "e"
                /\ path[3] = "s" /\ path[4] = "t" )
    /\ yaml_file # "YamlFile" => collectors = << >>
    /\ Len(collectors) = Len(schema)
    /\ \A i \in 1..Len(schema) :
          /\ collectors[i].workflow_test = schema[i]
          /\ collectors[i].name = schema[i].name
          /\ collectors[i].parent = path

C18_Witness ==
    /\ path = << "t", "e", "s", "t", ".", "y", "a", "m", "l" >>
    /\ yaml_file = "YamlFile"
    /\ Len(schema) = MaxTests
    /\ Len(collectors) = MaxTests
    /\ collectors[1].name # collectors[MaxTests].name

====
